---------------------------- MODULE Spec2Model ----------------------------
(***************************************************************************)
(* Model of src/flask_document_processor.py: the document detection and    *)
(* rectification pipeline (order_points, four_point_transform,             *)
(* detect_document_edges, detect_document_edges_alternative).              *)
(*                                                                         *)
(* An image is modelled by its shape [h, w]; a point is <<x, y>>; a        *)
(* contour is what the code reads of it: cv2.contourArea(contour) and the  *)
(* polygon cv2.approxPolyDP returns for it.  What cv2.findContours and     *)
(* cv2.HoughLines return for an image is an input of the model.            *)
(* Coordinates are integers below 2048, where float32 is exact and         *)
(* int(np.sqrt(n)) is the integer square root.                             *)
(***************************************************************************)
EXTENDS Integers, Sequences, FiniteSets

VARIABLES
    pc,                \* position in the pipeline
    image,             \* shape of the decoded input image: [h, w]
    contours,          \* contours as cv2.findContours returned them
    ordered,           \* contours after sorted(..., reverse=True)
    i,                 \* position of the for loop over the sorted contours
    document_contour,  \* approx of the accepted contour, <<>> for None
    lines,             \* number of lines cv2.HoughLines returned, 0 for None
    pts,               \* argument of order_points / four_point_transform
    rect,              \* result of order_points
    warped,            \* shape of the returned image, via: how it was made
    corners,           \* the returned corner list, <<>> before the return
    tier,              \* which return statement produced the result
    error              \* an exception reached process_document's handler

vars == << pc, image, contours, ordered, i, document_contour, lines,
           pts, rect, warped, corners, tier, error >>

-----------------------------------------------------------------------------
(* Bounds of the model *)

MaxContours == 3
MaxLines == 5
GridMax == 2

-----------------------------------------------------------------------------
(* Program constants *)

MinDocumentArea == 10000
DocumentVertices == 4
MinHoughLines == 4
LinePaddingDivisor == 20
CropPaddingDivisor == 40

-----------------------------------------------------------------------------
(* Arithmetic helpers *)

Min2(a, b) == IF a <= b THEN a ELSE b
Max2(a, b) == IF a >= b THEN a ELSE b

\* int(np.sqrt(n)) for an integer 0 <= n < 4160 * 4160: the integer square
\* root, found in the block of 64 that holds it
IntSqrt(n) ==
    LET a == CHOOSE b \in 0..64 :
                 (64 * b) * (64 * b) <= n /\ n < (64 * b + 64) * (64 * b + 64)
    IN  CHOOSE r \in (64 * a)..(64 * a + 63) :
            r * r <= n /\ n < (r + 1) * (r + 1)

SqDist(p, q) == (p[1] - q[1]) * (p[1] - q[1]) + (p[2] - q[2]) * (p[2] - q[2])

-----------------------------------------------------------------------------
(* order_points *)

PointSum(p) == p[1] + p[2]

\* np.diff(pts, axis=1): second column minus first column
PointDiff(p) == p[2] - p[1]

\* np.argmin / np.argmax over the 4 values: the first index of the extreme
ArgMin(vals) ==
    CHOOSE k \in DOMAIN vals :
        /\ \A j \in DOMAIN vals : vals[k] <= vals[j]
        /\ \A j \in DOMAIN vals : j < k => vals[j] > vals[k]

ArgMax(vals) ==
    CHOOSE k \in DOMAIN vals :
        /\ \A j \in DOMAIN vals : vals[k] >= vals[j]
        /\ \A j \in DOMAIN vals : j < k => vals[j] < vals[k]

\* faulty variant: the two difference extremes exchanged
order_points_swapped(p) ==
    LET s == [k \in DOMAIN p |-> PointSum(p[k])]
        diff == [k \in DOMAIN p |-> PointDiff(p[k])]
    IN  << p[ArgMin(s)], p[ArgMax(diff)], p[ArgMax(s)], p[ArgMin(diff)] >>

\* rect[0] = tl, rect[1] = tr, rect[2] = br, rect[3] = bl
order_points(p) ==
    LET s == [k \in DOMAIN p |-> PointSum(p[k])]
        diff == [k \in DOMAIN p |-> PointDiff(p[k])]
    IN  << p[ArgMin(s)], p[ArgMin(diff)], p[ArgMax(s)], p[ArgMax(diff)] >>

-----------------------------------------------------------------------------
(* four_point_transform *)

\* faulty variant: the smaller of the two candidate widths
MaxWidthMin(r) ==
    Min2(IntSqrt(SqDist(r[3], r[4])), IntSqrt(SqDist(r[2], r[1])))

\* max(int(widthA), int(widthB)): br-bl and tr-tl
MaxWidth(r) ==
    Max2(IntSqrt(SqDist(r[3], r[4])), IntSqrt(SqDist(r[2], r[1])))

\* faulty variant: the height measured along the diagonals
MaxHeightDiagonal(r) ==
    Max2(IntSqrt(SqDist(r[1], r[3])), IntSqrt(SqDist(r[2], r[4])))

\* max(int(heightA), int(heightB)): tr-br and tl-bl
MaxHeight(r) ==
    Max2(IntSqrt(SqDist(r[2], r[3])), IntSqrt(SqDist(r[1], r[4])))

\* cv2.warpPerspective(image, M, (maxWidth, maxHeight)): the output has the
\* size dsize, and the size of the source image when dsize is empty
WarpPerspective(img, maxWidth, maxHeight) ==
    IF maxWidth <= 0 \/ maxHeight <= 0
    THEN [w |-> img.w, h |-> img.h, via |-> "warp"]
    ELSE [w |-> maxWidth, h |-> maxHeight, via |-> "warp"]

\* rect = order_points(pts) is computed once, then measured and warped
four_point_transform(img, p) ==
    CHOOSE out \in { WarpPerspective(img, MaxWidth(r), MaxHeight(r)) :
                        r \in {order_points(p)} } : TRUE

-----------------------------------------------------------------------------
(* detect_document_edges: the contour search *)

\* faulty variant: the vertex count is not tested
QualifiesByAreaOnly(c) == c.area > MinDocumentArea

\* len(approx) == 4 and cv2.contourArea(contour) > 10000
Qualifies(c) ==
    Len(c.approx) = DocumentVertices /\ c.area > MinDocumentArea

\* c goes behind every contour whose area is not smaller than its own
InsertByArea(s, c) ==
    LET n == Cardinality({k \in DOMAIN s : s[k].area >= c.area})
    IN  SubSeq(s, 1, n) \o << c >> \o SubSeq(s, n + 1, Len(s))

RECURSIVE SortedFrom(_, _)
SortedFrom(done, rest) ==
    IF rest = << >> THEN done
    ELSE SortedFrom(InsertByArea(done, Head(rest)), Tail(rest))

\* faulty variant: the contours are scanned in the order found
NotSorted(cs) == cs

\* sorted(contours, key=cv2.contourArea, reverse=True): stable, largest first
SortedByArea(cs) == SortedFrom(<< >>, cs)

RECURSIVE FirstQualifying(_)
\* the for loop as a whole: approx of the first qualifying contour, << >>
\* when the loop ends with document_contour still None
FirstQualifying(cs) ==
    IF cs = << >> THEN << >>
    ELSE IF Qualifies(Head(cs)) THEN Head(cs).approx
    ELSE FirstQualifying(Tail(cs))

\* lines 89-101 applied to a candidate list
SelectDocumentContour(cs) == FirstQualifying(SortedByArea(cs))

-----------------------------------------------------------------------------
(* detect_document_edges_alternative: the synthesized corners *)

\* padding = min(h, w) // 20
LinePadding(img) == Min2(img.h, img.w) \div LinePaddingDivisor

\* faulty variant: the crop uses the 5% padding of the line estimate
CropPaddingAsLine(img) == Min2(img.h, img.w) \div LinePaddingDivisor

\* padding = min(h, w) // 40
CropPadding(img) == Min2(img.h, img.w) \div CropPaddingDivisor

\* faulty variant: the corners listed from the bottom-left upwards
PaddedCornersReversed(img, p) ==
    << <<p, img.h - p>>, <<img.w - p, img.h - p>>,
       <<img.w - p, p>>, <<p, p>> >>

PaddedCorners(img, p) ==
    << <<p, p>>, <<img.w - p, p>>,
       <<img.w - p, img.h - p>>, <<p, img.h - p>> >>

\* number of indices a[lo:hi] selects on an axis of length n (lo, hi >= 0)
SliceLen(lo, hi, n) == Max2(0, Min2(hi, n) - Min2(lo, n))

\* image[padding:h-padding, padding:w-padding]
Cropped(img, p) ==
    [w |-> SliceLen(p, img.w - p, img.w),
     h |-> SliceLen(p, img.h - p, img.h), via |-> "crop"]

\* faulty variant: exactly 4 lines do not count
LinesFoundStrict(n) == n > MinHoughLines

\* lines is not None and len(lines) >= 4
LinesFound(n) == n >= MinHoughLines

-----------------------------------------------------------------------------
(* Inputs *)

ImageShapes == { [h |-> 500, w |-> 500], [h |-> 800, w |-> 1000] }

NoImage == [w |-> 0, h |-> 0, via |-> "none"]

\* Contours a detector can extract: area and simplified polygon
ContourPool ==
    { [area |-> 20000,
       approx |-> << <<50, 50>>, <<250, 50>>, <<250, 150>>, <<50, 150>> >>],
      [area |-> 20000,
       approx |-> << <<400, 50>>, <<300, 50>>, <<300, 250>>, <<400, 250>> >>],
      [area |-> 522600,
       approx |-> << <<120, 720>>, <<880, 750>>, <<900, 80>>, <<100, 50>> >>],
      [area |-> 10000,
       approx |-> << <<10, 300>>, <<110, 300>>, <<110, 400>>, <<10, 400>> >>],
      [area |-> 30000,
       approx |-> << <<100, 100>>, <<300, 100>>, <<350, 200>>,
                     <<200, 300>>, <<100, 200>> >>],
      [area |-> 12475,
       approx |-> << <<250, 0>>, <<275, 250>>, <<250, 499>>, <<225, 250>> >>] }

Fits(c, img) ==
    \A k \in DOMAIN c.approx :
        c.approx[k][1] < img.w /\ c.approx[k][2] < img.h

SeqsUpTo(S, n) == UNION { [1..m -> S] : m \in 0..n }

Permutations4 ==
    { f \in [1..4 -> 1..4] : \A a, b \in 1..4 : a # b => f[a] # f[b] }

OrdersOf(q) == { [k \in 1..4 |-> q[f[k]]] : f \in Permutations4 }

GridPoints == (0..GridMax) \X (0..GridMax)

GridQuads ==
    { q \in [1..4 -> GridPoints] :
        \A a, b \in 1..4 : a # b => q[a] # q[b] }

ScenarioQuad == << <<100, 50>>, <<900, 80>>, <<880, 750>>, <<120, 720>> >>
ThinDiamond == << <<250, 0>>, <<275, 250>>, <<250, 499>>, <<225, 250>> >>
LargeRectangle == << <<25, 25>>, <<475, 25>>, <<475, 375>>, <<25, 375>> >>

GeometryInputs ==
    GridQuads \cup OrdersOf(ScenarioQuad) \cup OrdersOf(ThinDiamond)
        \cup OrdersOf(LargeRectangle)

-----------------------------------------------------------------------------
(* The pipeline: detect_document_edges called by process_document *)

Init ==
    /\ pc = "start"
    /\ image \in ImageShapes
    /\ contours \in SeqsUpTo({c \in ContourPool : Fits(c, image)}, MaxContours)
    /\ ordered = << >>
    /\ i = 0
    /\ document_contour = << >>
    /\ lines = 0
    /\ pts = << >>
    /\ rect = << >>
    /\ warped = NoImage
    /\ corners = << >>
    /\ tier = "none"
    /\ error = FALSE

SortContours ==
    /\ pc = "start"
    /\ ordered' = SortedByArea(contours)
    /\ i' = 1
    /\ pc' = "scan"
    /\ UNCHANGED << image, contours, document_contour, lines, pts, rect,
                    warped, corners, tier, error >>

\* one iteration of the for loop
ScanContour ==
    /\ pc = "scan"
    /\ i <= Len(ordered)
    /\ IF Qualifies(ordered[i])
       THEN /\ document_contour' = ordered[i].approx
            /\ pc' = "found"
            /\ i' = i
       ELSE /\ i' = i + 1
            /\ UNCHANGED << document_contour, pc >>
    /\ UNCHANGED << image, contours, ordered, lines, pts, rect, warped,
                    corners, tier, error >>

\* the for loop ends with document_contour still None
ScanExhausted ==
    /\ pc = "scan"
    /\ i > Len(ordered)
    /\ pc' = "notfound"
    /\ UNCHANGED << image, contours, ordered, i, document_contour, lines,
                    pts, rect, warped, corners, tier, error >>

\* document_contour is not None: reshape(4, 2), transform, return
ContourMatch ==
    /\ pc = "found"
    /\ pc' = "done"
    /\ IF Len(document_contour) # 4
       THEN \* reshape(4, 2) raises ValueError, caught by process_document
            /\ error' = TRUE
            /\ UNCHANGED << pts, rect, warped, corners, tier >>
       ELSE /\ pts' = document_contour
            /\ rect' = order_points(document_contour)
            /\ warped' = four_point_transform(image, document_contour)
            /\ corners' = document_contour
            /\ tier' = "ContourMatch"
            /\ UNCHANGED error
    /\ UNCHANGED << image, contours, ordered, i, document_contour, lines >>

\* detect_document_edges_alternative, at least 4 lines
LineEstimate(n) ==
    /\ pc = "notfound"
    /\ LinesFound(n)
    /\ lines' = n
    /\ pts' = PaddedCorners(image, LinePadding(image))
    /\ rect' = order_points(pts')
    /\ warped' = four_point_transform(image, pts')
    /\ corners' = pts'
    /\ tier' = "LineEstimate"
    /\ pc' = "done"
    /\ UNCHANGED << image, contours, ordered, i, document_contour, error >>

\* detect_document_edges_alternative, no lines or fewer than 4
PaddedCrop(n) ==
    /\ pc = "notfound"
    /\ ~LinesFound(n)
    /\ lines' = n
    /\ warped' = Cropped(image, CropPadding(image))
    /\ corners' = PaddedCorners(image, CropPadding(image))
    /\ tier' = "PaddedFallback"
    /\ pc' = "done"
    /\ UNCHANGED << image, contours, ordered, i, document_contour, pts, rect,
                    error >>

Next ==
    \/ SortContours
    \/ ScanContour
    \/ ScanExhausted
    \/ ContourMatch
    \/ \E n \in 0..MaxLines : LineEstimate(n)
    \/ \E n \in 0..MaxLines : PaddedCrop(n)

Spec == Init /\ [][Next]_vars

\* detect_document_edges is one synchronous call: a step that can be taken
\* is taken
FairSpec == Spec /\ WF_vars(Next)

-----------------------------------------------------------------------------
(* The geometry functions applied to four points in any order *)

GeomInit ==
    /\ pc = "geom"
    /\ image = [h |-> 500, w |-> 500]
    /\ pts \in GeometryInputs
    /\ contours = << >>
    /\ ordered = << >>
    /\ i = 0
    /\ document_contour = << >>
    /\ lines = 0
    /\ rect = << >>
    /\ warped = NoImage
    /\ corners = << >>
    /\ tier = "none"
    /\ error = FALSE

ApplyOrderPoints ==
    /\ pc = "geom"
    /\ rect' = order_points(pts)
    /\ pc' = "geom_ordered"
    /\ UNCHANGED << image, contours, ordered, i, document_contour, lines,
                    pts, warped, corners, tier, error >>

ApplyFourPointTransform ==
    /\ pc = "geom_ordered"
    /\ warped' = four_point_transform(image, pts)
    /\ pc' = "geom_done"
    /\ UNCHANGED << image, contours, ordered, i, document_contour, lines,
                    pts, rect, corners, tier, error >>

GeomNext == ApplyOrderPoints \/ ApplyFourPointTransform

GeomSpec == GeomInit /\ [][GeomNext]_vars

-----------------------------------------------------------------------------
(* Geometry vocabulary of the properties *)

Abs(a) == IF a >= 0 THEN a ELSE -a

Cross(a, b, c) ==
    (b[1] - a[1]) * (c[2] - b[2]) - (b[2] - a[2]) * (c[1] - b[1])

\* q lists the vertices of a strictly convex quadrilateral around its boundary
ConvexCyclic(q) ==
    LET t1 == Cross(q[1], q[2], q[3])
        t2 == Cross(q[2], q[3], q[4])
        t3 == Cross(q[3], q[4], q[1])
        t4 == Cross(q[4], q[1], q[2])
    IN  \/ (t1 > 0 /\ t2 > 0 /\ t3 > 0 /\ t4 > 0)
        \/ (t1 < 0 /\ t2 < 0 /\ t3 < 0 /\ t4 < 0)

\* the 4 points are the vertices of a convex quadrilateral, in whatever order
ConvexPosition(q) == \E o \in OrdersOf(q) : ConvexCyclic(o)

PointsOf(q) == { q[k] : k \in DOMAIN q }

MinSumOf(q, p) == \A k \in DOMAIN q : p[1] + p[2] <= q[k][1] + q[k][2]
MaxSumOf(q, p) == \A k \in DOMAIN q : p[1] + p[2] >= q[k][1] + q[k][2]
MinXMinusYOf(q, p) == \A k \in DOMAIN q : p[1] - p[2] <= q[k][1] - q[k][2]
MaxXMinusYOf(q, p) == \A k \in DOMAIN q : p[1] - p[2] >= q[k][1] - q[k][2]
MinYMinusXOf(q, p) == \A k \in DOMAIN q : p[2] - p[1] <= q[k][2] - q[k][1]
MaxYMinusXOf(q, p) == \A k \in DOMAIN q : p[2] - p[1] >= q[k][2] - q[k][1]

Ordered == pc \in {"geom_ordered", "geom_done"}

\* pts are the corners of an axis-aligned rectangle of positive width, height
IsAxisAlignedRectangle(q) ==
    LET xs == { q[k][1] : k \in DOMAIN q }
        ys == { q[k][2] : k \in DOMAIN q }
    IN  /\ Cardinality(xs) = 2
        /\ Cardinality(ys) = 2
        /\ PointsOf(q) = xs \X ys

SpanOf(S) == CHOOSE d \in 0..4096 : \E a, b \in S : a <= b /\ d = b - a
                                        /\ \A c \in S : a <= c /\ c <= b

RectWidth(q) == SpanOf({ q[k][1] : k \in DOMAIN q })
RectHeight(q) == SpanOf({ q[k][2] : k \in DOMAIN q })

-----------------------------------------------------------------------------
(* Properties of order_points and four_point_transform, under GeomSpec *)

\* C1 as stated: for the vertices of a convex quadrilateral given in any
\* rotation or reflection of their order, order_points returns tl with the
\* minimum x+y, br with the maximum x+y, tr with the minimum x-y and bl with
\* the maximum x-y.
C1_OrderingAsStated ==
    (Ordered /\ ConvexCyclic(pts)) =>
        /\ rect[1] \in PointsOf(pts) /\ MinSumOf(pts, rect[1])
        /\ rect[3] \in PointsOf(pts) /\ MaxSumOf(pts, rect[3])
        /\ rect[2] \in PointsOf(pts) /\ MinXMinusYOf(pts, rect[2])
        /\ rect[4] \in PointsOf(pts) /\ MaxXMinusYOf(pts, rect[4])

\* C1 amended: for the vertices of a convex quadrilateral given in any
\* rotation or reflection of their order, order_points returns tl with the
\* minimum x+y, br with the maximum x+y, tr with the minimum y-x (the maximum
\* x-y) and bl with the maximum y-x (the minimum x-y).
C1_OrderingInvariant ==
    (Ordered /\ ConvexCyclic(pts)) =>
        /\ rect[1] \in PointsOf(pts) /\ MinSumOf(pts, rect[1])
        /\ rect[3] \in PointsOf(pts) /\ MaxSumOf(pts, rect[3])
        /\ rect[2] \in PointsOf(pts) /\ MinYMinusXOf(pts, rect[2])
        /\ rect[4] \in PointsOf(pts) /\ MaxYMinusXOf(pts, rect[4])

\* C1 witness: a convex quadrilateral whose input order starts at another
\* vertex than the top-left one has been ordered, with 4 distinct corners.
C1_Witness ==
    /\ pc = "geom_ordered"
    /\ ConvexCyclic(pts)
    /\ rect[1] # pts[1]
    /\ Cardinality(PointsOf(rect)) = 4

\* C10: for 4 distinct points forming a convex quadrilateral (diamonds and
\* kites included), the 4 points order_points returns are a permutation of
\* the input: every input point appears exactly once among the 4 roles.
C10_OutputIsPermutation ==
    (Ordered /\ Cardinality(PointsOf(pts)) = 4 /\ ConvexPosition(pts)) =>
        /\ PointsOf(rect) = PointsOf(pts)
        /\ Cardinality(PointsOf(rect)) = 4

\* C6: for the corners of an axis-aligned rectangle of integer width W >= 1
\* and height H >= 1, in any input order, four_point_transform returns an
\* image whose width is within 1 of W and whose height is within 1 of H.
C6_RectangleSizing ==
    (pc = "geom_done" /\ IsAxisAlignedRectangle(pts)) =>
        /\ Abs(warped.w - RectWidth(pts)) <= 1
        /\ Abs(warped.h - RectHeight(pts)) <= 1

\* C6 witness: a rectangle whose width and height differ by more than 1,
\* given in an order that does not start at its top-left corner, transformed.
C6_Witness ==
    /\ pc = "geom_done"
    /\ IsAxisAlignedRectangle(pts)
    /\ RectWidth(pts) > RectHeight(pts) + 1
    /\ pts[1] # rect[1]
    /\ warped.w = RectWidth(pts)

ScenarioOrdered == << <<100, 50>>, <<900, 80>>, <<880, 750>>, <<120, 720>> >>

\* C9 as stated: for the points (100,50),(900,80),(880,750),(120,720) in any
\* order, order_points gives tl=(100,50), tr=(900,80), br=(880,750),
\* bl=(120,720) and four_point_transform returns a width of about 780 and a
\* height of about 670 ("about" read generously: within 10 pixels).
C9_ScenarioAsStated ==
    (pc = "geom_done" /\ pts \in OrdersOf(ScenarioQuad)) =>
        /\ rect = ScenarioOrdered
        /\ Abs(warped.w - 780) <= 10
        /\ Abs(warped.h - 670) <= 10

\* C9 amended: for the points (100,50),(900,80),(880,750),(120,720) in any
\* order, order_points gives tl=(100,50), tr=(900,80), br=(880,750),
\* bl=(120,720) and four_point_transform returns the width 800, the
\* truncated max(dist(br,bl) = 760.59, dist(tr,tl) = 800.56), and the height
\* 670, the truncated max(dist(tr,br), dist(tl,bl)) = 670.29.
C9_ScenarioSizing ==
    (pc = "geom_done" /\ pts \in OrdersOf(ScenarioQuad)) =>
        /\ rect = ScenarioOrdered
        /\ warped.w = 800
        /\ warped.h = 670

\* C9 witness: the scenario's points, given bottom-left first, transformed.
C9_Witness ==
    /\ pc = "geom_done"
    /\ pts \in OrdersOf(ScenarioQuad)
    /\ pts[1] = <<120, 720>>
    /\ warped.via = "warp"

\* C3: when the computed target width or height is zero, four_point_transform
\* does not raise, returns no zero-sized buffer, and returns the fallback
\* crop instead of a warp.
C3_DegenerateGuard ==
    (pc = "geom_done" /\ (MaxWidth(rect) = 0 \/ MaxHeight(rect) = 0)) =>
        /\ ~error
        /\ warped.w > 0 /\ warped.h > 0
        /\ warped.via = "crop"

-----------------------------------------------------------------------------
(* Properties of the detection pipeline, under Spec *)

Returned == pc = "done"

Searched == pc \in {"found", "notfound", "done"}

QualifyingIndices == { k \in DOMAIN contours : Qualifies(contours[k]) }

ReorderingsOf(cs) ==
    LET n == Len(cs)
        bij == { f \in [1..n -> 1..n] :
                    \A a, b \in 1..n : a # b => f[a] # f[b] }
    IN  { [k \in 1..n |-> cs[f[k]]] : f \in bij }

\* areas of the contours of cs whose polygon is p
AreasOf(cs, p) == { cs[k].area : k \in { j \in DOMAIN cs : cs[j].approx = p } }

\* (top-left, top-right, bottom-right, bottom-left) of an upright image:
\* y grows downwards, so the top-right corner has the largest x-y
IsCanonical(c) ==
    /\ Len(c) = 4
    /\ MinSumOf(c, c[1])
    /\ MaxXMinusYOf(c, c[2])
    /\ MaxSumOf(c, c[3])
    /\ MinXMinusYOf(c, c[4])

InImage(c) ==
    \A k \in DOMAIN c :
        /\ 0 <= c[k][1] /\ c[k][1] <= image.w
        /\ 0 <= c[k][2] /\ c[k][2] <= image.h

\* C2: whatever contours the detector extracts and however many lines the
\* line search finds, the pipeline runs to its return, and returns a
\* non-empty image and a list of 4 corners; no exception reaches the caller.
C2_AlwaysReturns ==
    /\ <>Returned
    /\ [](~error)
    /\ [](Returned =>
            /\ warped.via \in {"warp", "crop"}
            /\ warped.w >= 1 /\ warped.h >= 1
            /\ Len(corners) = 4)

\* C2 witness: the contour tier has returned for a quadrilateral whose
\* computed target width is zero, next to a contour that is large but not
\* 4-sided.
C2_Witness ==
    /\ Returned
    /\ tier = "ContourMatch"
    /\ MaxWidth(rect) = 0
    /\ \E k \in DOMAIN contours :
          contours[k].area > MinDocumentArea /\ Len(contours[k].approx) # 4

\* C4 as stated: the selected contour is the one of maximum area among those
\* with exactly 4 vertices and area > 10000; the selection is the same for
\* every order of the candidate list; none is selected exactly when none
\* qualifies.
C4_SelectionAsStated ==
    Searched =>
        /\ (document_contour = << >>) <=> (QualifyingIndices = {})
        /\ QualifyingIndices # {} =>
              \E k \in QualifyingIndices :
                  /\ contours[k].approx = document_contour
                  /\ \A j \in QualifyingIndices :
                        contours[k].area >= contours[j].area
        /\ \A r \in ReorderingsOf(contours) :
              SelectDocumentContour(r) = document_contour

\* C4 amended: the selected contour has the maximum area among those with
\* exactly 4 vertices and area > 10000, and among several of that maximum
\* area it is the one that comes first in the candidate list; the area of the
\* selected contour is the same for every order of the list; none is selected
\* exactly when none qualifies.
C4_Selection ==
    Searched =>
        /\ (document_contour = << >>) <=> (QualifyingIndices = {})
        /\ QualifyingIndices # {} =>
              \E k \in QualifyingIndices :
                  /\ contours[k].approx = document_contour
                  /\ \A j \in QualifyingIndices :
                        /\ contours[k].area >= contours[j].area
                        /\ contours[k].area = contours[j].area => k <= j
        /\ \A r \in ReorderingsOf(contours) :
              /\ (SelectDocumentContour(r) = << >>) <=> (document_contour = << >>)
              /\ document_contour # << >> =>
                    \E a \in AreasOf(contours, document_contour) :
                        a \in AreasOf(r, SelectDocumentContour(r))

\* C4 witness: the selected contour is not the first of the list, a smaller
\* qualifying contour and a larger non-qualifying one are in the list.
C4_Witness ==
    /\ pc = "found"
    /\ Len(contours) = MaxContours
    /\ contours[1].approx # document_contour
    /\ \E k \in QualifyingIndices : contours[k].approx # document_contour
    /\ \E k \in DOMAIN contours :
          /\ ~Qualifies(contours[k])
          /\ \A a \in AreasOf(contours, document_contour) : contours[k].area > a

\* C5: the fallback estimator runs only when no contour qualifies; then the
\* result comes from the line estimate if at least 4 lines are found and
\* from the padded crop if fewer than 4 (or none) are found; in both fallback
\* tiers the returned corners are exactly 4 points.
C5_TierSelection ==
    /\ pc = "notfound" => QualifyingIndices = {}
    /\ Returned =>
        /\ (tier = "ContourMatch") <=> (QualifyingIndices # {})
        /\ (tier = "LineEstimate") <=> (QualifyingIndices = {} /\ lines >= 4)
        /\ (tier = "PaddedFallback") <=> (QualifyingIndices = {} /\ lines < 4)
        /\ tier \in {"LineEstimate", "PaddedFallback"} =>
              /\ corners # << >>
              /\ Len(corners) = 4
              /\ \A k \in 1..4 : Len(corners[k]) = 2

\* C5 witness: with contours present but none qualifying, exactly 4 lines
\* were found and the line estimate returned.
C5_Witness ==
    /\ Returned
    /\ contours # << >>
    /\ lines = 4
    /\ tier = "LineEstimate"
    /\ Len(corners) = 4

\* C7 as stated: in every tier the 4 returned corners are in the order
\* (top-left, top-right, bottom-right, bottom-left), in the coordinate space
\* of the original image.
C7_CornersAsStated ==
    Returned => (IsCanonical(corners) /\ InImage(corners))

\* C7 amended: in the line-estimate and padded-crop tiers the 4 returned
\* corners are in the order (top-left, top-right, bottom-right, bottom-left);
\* in the contour tier they are the 4 points of the selected contour's
\* simplified polygon in the polygon's own order, not reordered; in every tier
\* they are in the coordinate space of the original image.
C7_Corners ==
    Returned =>
        /\ InImage(corners)
        /\ tier \in {"LineEstimate", "PaddedFallback"} => IsCanonical(corners)
        /\ tier = "ContourMatch" =>
              /\ corners = document_contour
              /\ PointsOf(rect) \subseteq PointsOf(corners)

\* C7 witness: the contour tier has returned corners that are not in the
\* order (top-left, top-right, bottom-right, bottom-left).
C7_Witness ==
    /\ Returned
    /\ tier = "ContourMatch"
    /\ ~IsCanonical(corners)
    /\ IsCanonical(rect)

\* C8 as stated: for a 500x500 input with no qualifying contour and fewer
\* than 4 lines the padded crop is 475x475 and the corners are (12,12),
\* (487,12),(487,487),(12,487).
C8_PaddedCropAsStated ==
    (Returned /\ image = [h |-> 500, w |-> 500] /\ tier = "PaddedFallback") =>
        /\ warped.w = 475 /\ warped.h = 475
        /\ corners = << <<12, 12>>, <<487, 12>>, <<487, 487>>, <<12, 487>> >>

\* C8 amended: for a 500x500 input with no qualifying contour and fewer than
\* 4 lines the padding is 500//40 = 12, the padded crop is 476x476 (rows and
\* columns 12..487) and the corners are (12,12),(488,12),(488,488),(12,488),
\* the corners of the crop rectangle with its far edges exclusive.
C8_PaddedCrop ==
    (Returned /\ image = [h |-> 500, w |-> 500] /\ tier = "PaddedFallback") =>
        /\ warped = [w |-> 476, h |-> 476, via |-> "crop"]
        /\ corners = << <<12, 12>>, <<488, 12>>, <<488, 488>>, <<12, 488>> >>
        /\ corners[3][1] - corners[1][1] = warped.w
        /\ corners[3][2] - corners[1][2] = warped.h

\* C8 witness: a 500x500 input whose contours do not qualify and for which
\* 3 lines were found has been returned by the padded crop.
C8_Witness ==
    /\ Returned
    /\ image = [h |-> 500, w |-> 500]
    /\ contours # << >>
    /\ lines = 3
    /\ tier = "PaddedFallback"

=============================================================================
